---- MODULE Spec2Model ----
(***************************************************************************)
(* Model of utils/add_dags_to_composer.py: the argument parser, the two    *)
(* upload passes (DAGs, then data) of __main__, _create_file_list (the     *)
(* staging copy and the glob walk) and the upload loop of                  *)
(* upload_to_composer.  Paths are strings; a source tree is a set of       *)
(* regular files, each a sequence of name components.                      *)
(***************************************************************************)
EXTENDS Naturals, Sequences, FiniteSets

VARIABLES
    args,              \* argparse namespace: dags_directory, data_directory, dags_bucket
    fs,                \* the source side of the file system: directory name -> [exists, tree]
    fs0,               \* fs as it was when the first run started (never changes)
    tmpfs,             \* temporary directories created so far: root -> [src, tree]
    bucket,            \* the destination bucket: object key -> object body
    pc,                \* position of the running process
    directory,         \* upload_to_composer parameter
    name_replacement,  \* upload_to_composer parameter ("dags/" or "data/")
    temp_dir,          \* local of upload_to_composer
    files,             \* local of upload_to_composer
    idx,               \* position of the for loop in files
    exc,               \* exception propagating out of upload_to_composer
    exitcode,          \* exit status of the process, meaningful when pc = "done"
    stdout,            \* printed lines of this run: <<kind, pass, subject>>
    stagings,          \* mkdtemp calls of this run: [pass, root]
    calls,             \* upload_from_filename calls of this run
    second,            \* TRUE while/after the program is run a second time
    firstBucket,       \* the bucket as the first run left it
    firstClean         \* the first run made only successful uploads and exited 0

vars == <<args, fs, fs0, tmpfs, bucket, pc, directory, name_replacement,
          temp_dir, files, idx, exc, exitcode, stdout, stagings, calls,
          second, firstBucket, firstClean>>

\* Largest number of regular files in a source tree.
MaxFiles == 2

None == "None"

---------------------------------------------------------------------------
(* Strings *)

StartsWith(s, p) == Len(s) >= Len(p) /\ SubSeq(s, 1, Len(p)) = p

EndsWith(s, p) == Len(s) >= Len(p) /\ SubSeq(s, Len(s) - Len(p) + 1, Len(s)) = p

\* str.replace(old, new): every non-overlapping occurrence, left to right.
RECURSIVE Replace(_, _, _)
Replace(s, old, new) ==
    IF Len(s) < Len(old) \/ Len(old) = 0 THEN s
    ELSE IF StartsWith(s, old)
         THEN new \o Replace(SubSeq(s, Len(old) + 1, Len(s)), old, new)
         ELSE SubSeq(s, 1, 1) \o Replace(Tail(s), old, new)

\* fnmatch.fnmatch for patterns made of literal characters and "*".
RECURSIVE Fnmatch(_, _)
Fnmatch(name, pat) ==
    IF Len(pat) = 0 THEN Len(name) = 0
    ELSE IF SubSeq(pat, 1, 1) = "*"
         THEN Fnmatch(name, Tail(pat))
              \/ (Len(name) > 0 /\ Fnmatch(Tail(name), pat))
         ELSE /\ Len(name) > 0
              /\ SubSeq(name, 1, 1) = SubSeq(pat, 1, 1)
              /\ Fnmatch(Tail(name), Tail(pat))

\* os.path.join of the components of a relative path.
RECURSIVE Join(_)
Join(p) == IF Len(p) = 1 THEN p[1] ELSE p[1] \o "/" \o Join(Tail(p))

IsPrefix(p, q) == Len(p) <= Len(q) /\ SubSeq(q, 1, Len(p)) = p

---------------------------------------------------------------------------
(* The file system *)

\* Names of the directories the command line may name.  "nx" never exists.
DirNames == {"src", "nx"}

\* Roots tempfile.mkdtemp can return (two passes in each of two runs).
TempNames == {"/tmp/tmp0", "/tmp/tmp1", "/tmp/tmp2", "/tmp/tmp3"}

\* Regular files a source tree may hold, as component sequences.
CandidatePaths ==
    { <<"a.py">>, <<"__init__.py">>, <<"h_test.py">>, <<".env">>,
      <<"s", "b.py">>, <<"s", "__init__.py">>, <<"h_test.py", "c.py">>,
      <<"s", "tmp", "tmp0", "c.py">> }

\* A tree is a set of regular files; no file is also a directory.
IsTree(t) == \A p \in t : \A q \in t : p # q => ~IsPrefix(p, q)

Trees == { t \in SUBSET CandidatePaths : Cardinality(t) <= MaxFiles /\ IsTree(t) }

Absent == [exists |-> FALSE, tree |-> {}]

\* os.path.exists(directory)
Exists(d) == d \in DOMAIN fs /\ fs[d].exists

\* The bytes of regular file p of directory d.
Content(d, p) == d \o "/" \o Join(p)

\* The directories of a tree: the proper prefixes of its files.
DirsOf(t) == UNION { { SubSeq(p, 1, n) : n \in 1..(Len(p) - 1) } : p \in t }

---------------------------------------------------------------------------
(* _create_file_list *)

IgnorePatterns == {"__init__.py", "*_test.py"}

\* shutil.ignore_patterns: the names of one directory listing to leave out.
files_to_ignore(names) == { n \in names : \E pat \in IgnorePatterns : Fnmatch(n, pat) }

\* shutil.copytree(directory, temp_dir, ignore=files_to_ignore): an entry is
\* copied when no component on its path, directory or file, is ignored.
Copied(p) == \A i \in 1..Len(p) : files_to_ignore({p[i]}) = {}

\* A copy with no ignore callback: everything is staged.
copytree_all(t) == [files |-> t, dirs |-> DirsOf(t)]

copytree(t) ==
    [files |-> { p \in t : Copied(p) }, dirs |-> { d \in DirsOf(t) : Copied(d) }]

\* glob._ishidden
IsHidden(name) == StartsWith(name, ".")

\* glob.glob(temp_dir + "/**", recursive=True): the entries (directories and
\* files) reached without stepping on a hidden name; "" is the root itself.
glob(st) ==
    { p \in st.files \cup st.dirs : \A i \in 1..Len(p) : ~IsHidden(p[i]) } \cup {<<>>}

\* os.path.isfile on an entry of the staged tree st.
isfile(st, p) == p \in st.files

\* The orders in which the recursive walk can list the regular files: the
\* order of a directory's entries is the file system's, and the contents of
\* a directory are listed together.
WalkOrders(S) ==
    { f \in [1..Cardinality(S) -> S] :
        /\ \A i, j \in DOMAIN f : i # j => f[i] # f[j]
        /\ \A i, j, k \in DOMAIN f :
             (i < j /\ j < k) =>
               \A n \in 1..Len(f[i]) :
                  (n < Len(f[i]) /\ n < Len(f[k])
                     /\ SubSeq(f[i], 1, n) = SubSeq(f[k], 1, n))
                  => (n < Len(f[j]) /\ SubSeq(f[j], 1, n) = SubSeq(f[i], 1, n)) }

\* The absolute path of staged entry p under root.
StagedPath(root, p) == root \o "/" \o Join(p)

\* Line 19: the regular files among the glob results.
FileList(st) == { p \in glob(st) : isfile(st, p) }

---------------------------------------------------------------------------
(* The process *)

Echo(line) == stdout' = Append(stdout, line)

Init ==
    /\ args \in [dags_directory : {None} \cup DirNames,
                 data_directory : {None} \cup DirNames,
                 dags_bucket : {None, "my-bucket"}]
    /\ \E t \in Trees, e \in BOOLEAN :
          fs = [d \in DirNames |->
                  IF d = "src" /\ e THEN [exists |-> TRUE, tree |-> t] ELSE Absent]
    /\ fs0 = fs
    /\ tmpfs = [r \in {} |-> Absent]
    /\ bucket = [k \in {} |-> ""]
    /\ pc = "parse"
    /\ directory = None
    /\ name_replacement = None
    /\ temp_dir = ""
    /\ files = <<>>
    /\ idx = 1
    /\ exc = None
    /\ exitcode = 0
    /\ stdout = <<>>
    /\ stagings = <<>>
    /\ calls = <<>>
    /\ second = FALSE
    /\ firstBucket = bucket
    /\ firstClean = FALSE

\* What a run leaves alone whatever it does.
Frame == UNCHANGED <<args, fs0, second, firstBucket, firstClean>>

\* A parser whose --dags_bucket is not required.
ParseArgs_optional ==
    /\ pc = "parse"
    /\ Echo(<<"banner", None, args.dags_bucket>>)
    /\ pc' = "main_dags"
    /\ UNCHANGED <<fs, tmpfs, bucket, directory, name_replacement, temp_dir,
                   files, idx, exc, exitcode, stagings, calls>>
    /\ Frame

\* Lines 58-64: parser.parse_args(); a missing --dags_bucket is a usage error.
ParseArgs ==
    /\ pc = "parse"
    /\ IF args.dags_bucket = None
       THEN /\ Echo(<<"usage error", None, "--dags_bucket">>)
            /\ exitcode' = 2
            /\ pc' = "done"
       ELSE /\ Echo(<<"banner", None, args.dags_bucket>>)
            /\ pc' = "main_dags"
            /\ UNCHANGED exitcode
    /\ UNCHANGED <<fs, tmpfs, bucket, directory, name_replacement, temp_dir,
                   files, idx, exc, stagings, calls>>
    /\ Frame

\* The call upload_to_composer(dir, args.dags_bucket, prefix).
Call(dir, prefix) ==
    /\ directory' = dir
    /\ name_replacement' = prefix
    /\ pc' = "create_file_list"
    /\ UNCHANGED <<stdout, exitcode>>

\* A DAGs step whose else branch ends the script instead of going on to the data.
MainDags_stop ==
    /\ pc = "main_dags"
    /\ IF args.dags_directory # None /\ Exists(args.dags_directory)
       THEN Call(args.dags_directory, "dags/")
       ELSE /\ Echo(<<"Skipping DAGs upload", "dags/", args.dags_directory>>)
            /\ pc' = "done"
            /\ exitcode' = 0
            /\ UNCHANGED <<directory, name_replacement>>
    /\ UNCHANGED <<fs, tmpfs, bucket, temp_dir, files, idx, exc, stagings, calls>>
    /\ Frame

\* Lines 70-74.
MainDags ==
    /\ pc = "main_dags"
    /\ IF args.dags_directory # None /\ Exists(args.dags_directory)
       THEN Call(args.dags_directory, "dags/")
       ELSE /\ Echo(<<"Skipping DAGs upload", "dags/", args.dags_directory>>)
            /\ pc' = "main_data"
            /\ UNCHANGED <<directory, name_replacement, exitcode>>
    /\ UNCHANGED <<fs, tmpfs, bucket, temp_dir, files, idx, exc, stagings, calls>>
    /\ Frame

\* Lines 76-80, and the normal end of the script.
MainData ==
    /\ pc = "main_data"
    /\ IF args.data_directory # None /\ Exists(args.data_directory)
       THEN Call(args.data_directory, "data/")
       ELSE /\ Echo(<<"Skipping Data upload", "data/", args.data_directory>>)
            /\ pc' = "done"
            /\ exitcode' = 0
            /\ UNCHANGED <<directory, name_replacement>>
    /\ UNCHANGED <<fs, tmpfs, bucket, temp_dir, files, idx, exc, stagings, calls>>
    /\ Frame

\* upload_to_composer returns to __main__: after the DAGs pass the data pass
\* is next, after the data pass the script ends.
Return ==
    IF name_replacement = "dags/"
    THEN pc' = "main_data" /\ UNCHANGED exitcode
    ELSE pc' = "done" /\ exitcode' = 0

\* An exception that ends the process with status 0.
Raise_exit0(e) ==
    /\ exc' = e
    /\ pc' = "done"
    /\ exitcode' = 0

\* An exception __main__ catches around the pass, going on with the script.
Raise_caught(e) ==
    /\ exc' = e
    /\ Return

\* An exception leaves upload_to_composer; __main__ does not catch it, so the
\* interpreter prints the traceback and exits 1.
Raise(e) ==
    /\ exc' = e
    /\ pc' = "done"
    /\ exitcode' = 1

\* Lines 8-20 (called from line 24).
CreateFileList ==
    /\ pc = "create_file_list"
    /\ IF ~Exists(directory)
       THEN /\ Echo(<<"Warning: does not exist", name_replacement, directory>>)
            /\ temp_dir' = ""
            /\ files' = <<>>
            /\ UNCHANGED <<tmpfs, stagings>>
       ELSE \E root \in TempNames \ DOMAIN tmpfs :
              LET st == copytree(fs[directory].tree) IN
              /\ tmpfs' = [r \in DOMAIN tmpfs \cup {root} |->
                             IF r = root
                             THEN [src |-> directory, files |-> st.files, dirs |-> st.dirs]
                             ELSE tmpfs[r]]
              /\ stagings' = Append(stagings, [pass |-> name_replacement, root |-> root])
              /\ temp_dir' = root
              /\ \E order \in WalkOrders(FileList(st)) :
                    files' = [i \in DOMAIN order |-> StagedPath(root, order[i])]
              /\ UNCHANGED stdout
    /\ idx' = 1
    /\ pc' = "check_files"
    /\ UNCHANGED <<fs, bucket, directory, name_replacement, exc, exitcode, calls>>
    /\ Frame

\* Lines 26-28: nothing to upload.
NoFiles ==
    /\ pc = "check_files"
    /\ files = <<>>
    /\ Echo(<<"No files found", name_replacement, directory>>)
    /\ Return
    /\ UNCHANGED <<fs, tmpfs, bucket, directory, name_replacement, temp_dir,
                   files, idx, exc, stagings, calls>>
    /\ Frame

\* Lines 30-31: the storage client and the bucket handle.
StorageClient ==
    /\ pc = "check_files"
    /\ files # <<>>
    /\ pc' = "loop"
    /\ UNCHANGED <<fs, tmpfs, bucket, directory, name_replacement, temp_dir,
                   files, idx, exc, exitcode, stdout, stagings, calls>>
    /\ Frame

\* Lines 30-31 when the client cannot be built (no credentials): not caught.
StorageClientError ==
    /\ pc = "check_files"
    /\ files # <<>>
    /\ Raise("BackendError")
    /\ UNCHANGED <<fs, tmpfs, bucket, directory, name_replacement, temp_dir,
                   files, idx, stdout, stagings, calls>>
    /\ Frame

\* Line 34.
file_gcs_path(file) == Replace(file, temp_dir \o "/", name_replacement)

\* The bytes of the staged file at an absolute path: those of the source
\* file it was copied from.
Body(file) ==
    LET p == CHOOSE q \in tmpfs[temp_dir].files : StagedPath(temp_dir, q) = file
    IN  Content(tmpfs[temp_dir].src, p)

CallRecord(file, outcome) ==
    [pass |-> name_replacement, root |-> temp_dir, file |-> file,
     key |-> file_gcs_path(file), outcome |-> outcome]

\* The loop moves to the next file, or the function returns after the last.
NextFile ==
    /\ idx' = idx + 1
    /\ IF idx = Len(files) THEN Return ELSE UNCHANGED <<pc, exitcode>>

\* A loop whose IsADirectoryError handler re-raises.
UploadIsADirectory_raise ==
    /\ pc = "loop"
    /\ idx <= Len(files)
    /\ calls' = Append(calls, CallRecord(files[idx], "IsADirectoryError"))
    /\ Echo(<<"Skipping directory", name_replacement, files[idx]>>)
    /\ Raise("IsADirectoryError")
    /\ UNCHANGED <<fs, tmpfs, bucket, directory, name_replacement, temp_dir,
                   files, idx, stagings>>
    /\ Frame

\* A loop whose FileNotFoundError handler has no raise.
UploadFileNotFound_continue ==
    /\ pc = "loop"
    /\ idx <= Len(files)
    /\ calls' = Append(calls, CallRecord(files[idx], "FileNotFoundError"))
    /\ Echo(<<"Error: not found", name_replacement, files[idx]>>)
    /\ NextFile
    /\ UNCHANGED <<fs, tmpfs, bucket, directory, name_replacement, temp_dir,
                   files, exc, stagings>>
    /\ Frame

\* Lines 36-38: the file is there and the backend takes it.
UploadOk ==
    /\ pc = "loop"
    /\ idx <= Len(files)
    /\ LET file == files[idx]
           key == file_gcs_path(file)
       IN  /\ bucket' = [k \in DOMAIN bucket \cup {key} |->
                           IF k = key THEN Body(file) ELSE bucket[k]]
           /\ calls' = Append(calls, CallRecord(file, "ok"))
           /\ Echo(<<"Uploaded", name_replacement, file>>)
    /\ NextFile
    /\ UNCHANGED <<fs, tmpfs, directory, name_replacement, temp_dir, files,
                   exc, stagings>>
    /\ Frame

\* Lines 39-40: a directory stands where the staged file was.
UploadIsADirectory ==
    /\ pc = "loop"
    /\ idx <= Len(files)
    /\ calls' = Append(calls, CallRecord(files[idx], "IsADirectoryError"))
    /\ Echo(<<"Skipping directory", name_replacement, files[idx]>>)
    /\ NextFile
    /\ UNCHANGED <<fs, tmpfs, bucket, directory, name_replacement, temp_dir,
                   files, exc, stagings>>
    /\ Frame

\* Lines 41-43: the staged file is gone when the upload opens it.
UploadFileNotFound ==
    /\ pc = "loop"
    /\ idx <= Len(files)
    /\ calls' = Append(calls, CallRecord(files[idx], "FileNotFoundError"))
    /\ Echo(<<"Error: not found", name_replacement, files[idx]>>)
    /\ Raise("FileNotFoundError")
    /\ UNCHANGED <<fs, tmpfs, bucket, directory, name_replacement, temp_dir,
                   files, idx, stagings>>
    /\ Frame

\* Line 37 raising anything else (network, permission): no handler.
UploadBackendError ==
    /\ pc = "loop"
    /\ idx <= Len(files)
    /\ calls' = Append(calls, CallRecord(files[idx], "BackendError"))
    /\ Raise("BackendError")
    /\ UNCHANGED <<fs, tmpfs, bucket, directory, name_replacement, temp_dir,
                   files, idx, stdout, stagings>>
    /\ Frame

\* The environment removes the source directory between the check in
\* __main__ (lines 71, 77) and the check in _create_file_list (line 10).
RemoveDirectory ==
    /\ pc = "create_file_list"
    /\ Exists(directory)
    /\ fs' = [fs EXCEPT ![directory] = Absent]
    /\ UNCHANGED <<tmpfs, bucket, pc, directory, name_replacement, temp_dir,
                   files, idx, exc, exitcode, stdout, stagings, calls>>
    /\ Frame

\* The same command line is run again after a finished run.
RunAgain ==
    /\ pc = "done"
    /\ ~second
    /\ second' = TRUE
    /\ firstBucket' = bucket
    /\ firstClean' = (exitcode = 0 /\ \A i \in DOMAIN calls : calls[i].outcome = "ok")
    /\ pc' = "parse"
    /\ directory' = None
    /\ name_replacement' = None
    /\ temp_dir' = ""
    /\ files' = <<>>
    /\ idx' = 1
    /\ exc' = None
    /\ exitcode' = 0
    /\ stdout' = <<>>
    /\ stagings' = <<>>
    /\ calls' = <<>>
    /\ UNCHANGED <<args, fs, fs0, tmpfs, bucket>>

Next ==
    \/ ParseArgs
    \/ MainDags
    \/ MainData
    \/ CreateFileList
    \/ NoFiles
    \/ StorageClient
    \/ StorageClientError
    \/ UploadOk
    \/ UploadIsADirectory
    \/ UploadFileNotFound
    \/ UploadBackendError
    \/ RemoveDirectory

Spec == Init /\ [][Next]_vars

NextTwice == Next \/ RunAgain

SpecTwice == Init /\ [][NextTwice]_vars

---------------------------------------------------------------------------
(* Vocabulary of the properties *)

Passes == {"dags/", "data/"}

\* p occurs in s.
RECURSIVE Contains(_, _)
Contains(s, p) ==
    IF Len(s) < Len(p) THEN FALSE
    ELSE StartsWith(s, p) \/ Contains(Tail(s), p)

\* The command-line directory of a pass.
DirOf(P) == IF P = "dags/" THEN args.dags_directory ELSE args.data_directory

OtherPass(P) == IF P = "dags/" THEN "data/" ELSE "dags/"

\* The source tree of a pass as it was when the run started.
TreeOf(P) == IF DirOf(P) = None THEN {} ELSE fs0[DirOf(P)].tree

\* There was no source directory for the pass when the run started.
NoSource(P) == DirOf(P) = None \/ ~fs0[DirOf(P)].exists

BaseName(p) == p[Len(p)]

\* A file the upload must leave out: named __init__.py or matching *_test.py.
ExcludedName(name) == name = "__init__.py" \/ EndsWith(name, "_test.py")

CallsOf(P) == { i \in DOMAIN calls : calls[i].pass = P }

StagedFor(P) == \E i \in DOMAIN stagings : stagings[i].pass = P

AllOk == \A i \in DOMAIN calls : calls[i].outcome = "ok"

Printed(kind, P) == \E i \in DOMAIN stdout : stdout[i][1] = kind /\ stdout[i][2] = P

\* The exception now propagating was raised inside pass P.
RaisedIn(P) == exc # None /\ name_replacement = P

---------------------------------------------------------------------------
(* C1 *)

\* C1: after a pass over an existing source tree in which every upload
\* succeeded, every regular file of the tree that is not named __init__.py
\* and does not match *_test.py has been uploaded exactly once, at the key
\* <prefix>/<path relative to the source root>, dotfiles and nested files
\* included.
C1_EveryOtherFileUploadedOnce ==
    \A P \in Passes :
      (pc = "done" /\ exitcode = 0 /\ fs = fs0 /\ StagedFor(P) /\ AllOk) =>
        \A p \in TreeOf(P) :
          ~ExcludedName(BaseName(p)) =>
            Cardinality({ i \in CallsOf(P) :
                            calls[i].key = P \o Join(p) /\ calls[i].outcome = "ok" }) = 1

---------------------------------------------------------------------------
(* C2 *)

\* C2: no file named __init__.py and no file matching *_test.py, at any
\* depth of the source tree, is ever passed to an upload call, and no
\* object key of a call is the key of such a file.
C2_ExcludedNeverUploaded ==
    \A i \in DOMAIN calls :
      \A p \in TreeOf(calls[i].pass) :
        ExcludedName(BaseName(p)) =>
          /\ calls[i].file # StagedPath(calls[i].root, p)
          /\ calls[i].key # calls[i].pass \o Join(p)

\* A finished pass uploaded a file of a subdirectory that also holds an
\* excluded file.
C2_Witness ==
    /\ pc = "done"
    /\ \E i \in DOMAIN calls :
         /\ calls[i].outcome = "ok"
         /\ \E p \in TreeOf(calls[i].pass) : ExcludedName(BaseName(p)) /\ Len(p) > 1

---------------------------------------------------------------------------
(* C3 *)

\* C3: when a staged file is gone at its upload call (FileNotFoundError),
\* the error line is printed, no call follows it (none of the later files of
\* the list is uploaded), and the failure leaves upload_to_composer: the
\* process ends with the exception, exit status 1.
C3_VanishedFileAborts ==
    \A i \in DOMAIN calls :
      calls[i].outcome = "FileNotFoundError" =>
        /\ i = Len(calls)
        /\ stdout[Len(stdout)] = <<"Error: not found", calls[i].pass, calls[i].file>>
        /\ exc = "FileNotFoundError"
        /\ name_replacement = calls[i].pass
        /\ pc = "done"
        /\ exitcode = 1
        /\ \A j \in (idx + 1)..Len(files) :
             \A k \in DOMAIN calls : calls[k].file # files[j]

\* The first file of a longer list had vanished at its upload call, so later
\* files of the list were left.
C3_Witness ==
    /\ Len(files) > 1
    /\ \E i \in DOMAIN calls :
         /\ calls[i].outcome = "FileNotFoundError"
         /\ calls[i].file = files[1]

---------------------------------------------------------------------------
(* C4 *)

\* Every file of the pass's tree carries an excluded name (or there is none).
OnlyExcluded(P) == ~NoSource(P) /\ \A p \in TreeOf(P) : ExcludedName(BaseName(p))

Skipped(P) ==
    \/ NoSource(P)
    \/ OnlyExcluded(P)
    \/ Printed("Warning: does not exist", P)
    \/ Printed("No files found", P)

\* C4: a pass whose source directory does not exist, or that finds no file
\* to upload after filtering, makes no upload call and raises nothing, and
\* the other pass of the run still runs: it stages its own directory and,
\* when nothing fails in it, the process ends normally.
C4_MissingSourceIsNoOp ==
    \A P \in Passes :
      Skipped(P) =>
        /\ CallsOf(P) = {}
        /\ ~RaisedIn(P)
        /\ (pc = "done" /\ args.dags_bucket # None /\ ~NoSource(OtherPass(P)) /\ fs = fs0)
              => StagedFor(OtherPass(P))
        /\ (pc = "done" /\ args.dags_bucket # None /\ exc = None) => exitcode = 0

\* --dags_directory names a directory that does not exist, and the data
\* pass of the same run uploaded a file.
C4_Witness ==
    /\ pc = "done"
    /\ NoSource("dags/")
    /\ DirOf("dags/") # None
    /\ \E i \in CallsOf("data/") : calls[i].outcome = "ok"

---------------------------------------------------------------------------
(* C5 *)

\* C5: without --dags_bucket the process ends with a usage error (exit
\* status 2) before any temporary directory is made and before any upload
\* call, whatever the two directory options are.
C5_MissingBucketIsUsageError ==
    args.dags_bucket = None =>
      /\ pc \in {"parse", "done"}
      /\ stagings = <<>>
      /\ DOMAIN tmpfs = {}
      /\ calls = <<>>
      /\ DOMAIN bucket = {}
      /\ pc = "done" => (exitcode = 2 /\ stdout = << <<"usage error", None, "--dags_bucket">> >>)

\* The run ended on the usage error although both directories exist with files.
C5_Witness ==
    /\ args.dags_bucket = None
    /\ pc = "done"
    /\ ~NoSource("dags/") /\ ~NoSource("data/")
    /\ TreeOf("dags/") # {}

---------------------------------------------------------------------------
(* C6 *)

\* A pass is complete when it was skipped or every file of its list was
\* attempted without an exception leaving it.
Raising(outcome) == outcome \in {"FileNotFoundError", "BackendError"}

\* C6: the process exits 0 whenever both passes complete, skipped passes
\* included; it exits non-zero when --dags_bucket is missing and when an
\* upload pass hits the file-not-found failure.
C6_ExitStatus ==
    pc = "done" =>
      /\ (args.dags_bucket # None /\ exc = None) => exitcode = 0
      /\ args.dags_bucket = None => exitcode # 0
      /\ (\E i \in DOMAIN calls : calls[i].outcome = "FileNotFoundError") => exitcode # 0
      /\ exitcode = 0 => \A i \in DOMAIN calls : ~Raising(calls[i].outcome)

\* A run whose DAGs pass was skipped for its missing directory and whose
\* data pass uploaded a file ended with status 0.
C6_Witness ==
    /\ pc = "done"
    /\ exitcode = 0
    /\ Printed("Skipping DAGs upload", "dags/")
    /\ \E i \in CallsOf("data/") : calls[i].outcome = "ok"

---------------------------------------------------------------------------
(* C7 *)

\* C7: running the same command line a second time with unchanged source
\* content, all uploads of both runs succeeding, leaves the bucket with the
\* same object keys and the same body per key as the first run left.
C7_SecondRunChangesNothing ==
    (second /\ pc = "done" /\ firstClean /\ exitcode = 0 /\ AllOk /\ fs = fs0)
      => bucket = firstBucket

---------------------------------------------------------------------------
(* C8 *)

\* C8: the key of every upload call is the pass's prefix followed by exactly
\* the file's path relative to the source root, and holds no part of the
\* staging root.
C8_KeyIsPrefixPlusRelativePath ==
    \A i \in DOMAIN calls :
      /\ \E p \in tmpfs[calls[i].root].files :
           /\ calls[i].file = StagedPath(calls[i].root, p)
           /\ calls[i].key = calls[i].pass \o Join(p)
      /\ ~Contains(calls[i].key, calls[i].root)

---------------------------------------------------------------------------
(* C9 *)

\* A step in which an upload call ended in IsADirectoryError.
DirectoryStep ==
    /\ Len(calls') = Len(calls) + 1
    /\ calls'[Len(calls')].outcome = "IsADirectoryError"

\* C9: when an upload call fails with IsADirectoryError the warning is
\* printed, nothing is uploaded for that entry, no exception leaves the
\* function, and the loop goes on to the next file of the list; after the
\* last file the function returns normally.
C9_DirectoryIsSkipped ==
    [][DirectoryStep =>
         /\ stdout'[Len(stdout')] = <<"Skipping directory", name_replacement, files[idx]>>
         /\ bucket' = bucket
         /\ exc' = None
         /\ files' = files
         /\ idx' = idx + 1
         /\ IF idx < Len(files)
            THEN pc' = "loop"
            ELSE IF name_replacement = "dags/"
                 THEN pc' = "main_data"
                 ELSE pc' = "done" /\ exitcode' = 0]_vars

\* A later file of the same pass was uploaded after a skipped entry.
C9_Witness ==
    \E i \in DOMAIN calls :
      /\ calls[i].outcome = "IsADirectoryError"
      /\ i < Len(calls)
      /\ calls[i + 1].pass = calls[i].pass
      /\ calls[i + 1].outcome = "ok"

---------------------------------------------------------------------------
(* C10 *)

\* C10: the DAGs pass comes before the data pass, and an exception leaving
\* the DAGs pass ends the run: the data pass never starts (no data staging
\* directory, no data call, no data/ key), and what the DAGs pass uploaded
\* before the failure stays in the bucket.
C10_DagsFailureEndsRun ==
    /\ \A i, j \in DOMAIN calls :
         (calls[i].pass = "data/" /\ calls[j].pass = "dags/") => j < i
    /\ \A i, j \in DOMAIN stagings :
         (stagings[i].pass = "data/" /\ stagings[j].pass = "dags/") => j < i
    /\ RaisedIn("dags/") =>
         /\ pc = "done"
         /\ exitcode = 1
         /\ CallsOf("data/") = {}
         /\ ~StagedFor("data/")
         /\ \A k \in DOMAIN bucket : ~StartsWith(k, "data/")
         /\ \A i \in DOMAIN calls : calls[i].outcome = "ok" => calls[i].key \in DOMAIN bucket

\* The DAGs pass failed after uploading a file, and an existing data
\* directory was waiting.
C10_Witness ==
    /\ RaisedIn("dags/")
    /\ ~NoSource("data/")
    /\ \E i \in DOMAIN calls : calls[i].outcome = "ok"
    /\ \E i \in DOMAIN calls : Raising(calls[i].outcome)

====
